---- MODULE Spec2Model ----
(***************************************************************************)
(* The API error model of rust/src/lib.rs: the closed ErrorCode            *)
(* enumeration and its HTTP status mapping, the tagged ErrorDetails        *)
(* variants, the ApiError envelope with its two constructors, its Display  *)
(* rendering, its serde (JSON) serialization and deserialization, and its  *)
(* conversion into an axum response.                                       *)
(*                                                                         *)
(* The library holds no state of its own.  The state of the model is that  *)
(* of one request handler: the binding `err` that owns the ApiError the    *)
(* handler constructs, and `out`, the result of the operation applied      *)
(* last.                                                                   *)
(***************************************************************************)
EXTENDS Integers, Sequences, FiniteSets, TLC

VARIABLES err, out

vars == <<err, out>>

(***************************************************************************)
(* Bounds of the model.                                                    *)
(***************************************************************************)
\* longest details vector a handler builds
MaxDetails == 2

(***************************************************************************)
(* ErrorCode (lib.rs 3-37) and its derived conversions.                    *)
(***************************************************************************)
ErrorCode ==
    { "InvalidArgument", "FailedPrecondition", "NotFound", "AlreadyExists",
      "Unauthenticated", "PermissionDenied", "TooManyRequests", "Internal",
      "Unknown", "Unavailable" }

\* Serialize for ErrorCode under #[serde(rename_all = "SCREAMING_SNAKE_CASE")]:
\* the unit variant is written as its renamed string.
ErrorCode_serialize(c) ==
    CASE c = "InvalidArgument"    -> "INVALID_ARGUMENT"
      [] c = "FailedPrecondition" -> "FAILED_PRECONDITION"
      [] c = "NotFound"           -> "NOT_FOUND"
      [] c = "AlreadyExists"      -> "ALREADY_EXISTS"
      [] c = "Unauthenticated"    -> "UNAUTHENTICATED"
      [] c = "PermissionDenied"   -> "PERMISSION_DENIED"
      [] c = "TooManyRequests"    -> "TOO_MANY_REQUESTS"
      [] c = "Internal"           -> "INTERNAL"
      [] c = "Unknown"            -> "UNKNOWN"
      [] c = "Unavailable"        -> "UNAVAILABLE"

\* A failed deserialization; `why` is serde's error category.
Rejected(why) == [ok |-> FALSE, why |-> why]

Accepted(v) == [ok |-> TRUE, val |-> v]

\* Mutant: the last variant carries #[serde(other)], so that every unknown
\* token is read as Unknown.
ErrorCode_deserialize_other(tok) ==
    CASE tok = "INVALID_ARGUMENT"    -> Accepted("InvalidArgument")
      [] tok = "FAILED_PRECONDITION" -> Accepted("FailedPrecondition")
      [] tok = "NOT_FOUND"           -> Accepted("NotFound")
      [] tok = "ALREADY_EXISTS"      -> Accepted("AlreadyExists")
      [] tok = "UNAUTHENTICATED"     -> Accepted("Unauthenticated")
      [] tok = "PERMISSION_DENIED"   -> Accepted("PermissionDenied")
      [] tok = "TOO_MANY_REQUESTS"   -> Accepted("TooManyRequests")
      [] tok = "INTERNAL"            -> Accepted("Internal")
      [] tok = "UNAVAILABLE"         -> Accepted("Unavailable")
      [] OTHER                       -> Accepted("Unknown")

\* Deserialize for ErrorCode: the generated visitor matches the renamed
\* variant strings, exactly and case-sensitively; anything else is
\* Error::unknown_variant.
ErrorCode_deserialize(tok) ==
    CASE tok = "INVALID_ARGUMENT"    -> Accepted("InvalidArgument")
      [] tok = "FAILED_PRECONDITION" -> Accepted("FailedPrecondition")
      [] tok = "NOT_FOUND"           -> Accepted("NotFound")
      [] tok = "ALREADY_EXISTS"      -> Accepted("AlreadyExists")
      [] tok = "UNAUTHENTICATED"     -> Accepted("Unauthenticated")
      [] tok = "PERMISSION_DENIED"   -> Accepted("PermissionDenied")
      [] tok = "TOO_MANY_REQUESTS"   -> Accepted("TooManyRequests")
      [] tok = "INTERNAL"            -> Accepted("Internal")
      [] tok = "UNKNOWN"             -> Accepted("Unknown")
      [] tok = "UNAVAILABLE"         -> Accepted("Unavailable")
      [] OTHER                       -> Rejected("unknown variant")

\* Mutant: AlreadyExists answered with BAD_REQUEST instead of CONFLICT.
get_http_code_conflict_as_bad_request(c) ==
    CASE c = "InvalidArgument"    -> 400
      [] c = "FailedPrecondition" -> 400
      [] c = "NotFound"           -> 404
      [] c = "AlreadyExists"      -> 400
      [] c = "Unauthenticated"    -> 401
      [] c = "PermissionDenied"   -> 403
      [] c = "TooManyRequests"    -> 429
      [] c = "Internal"           -> 500
      [] c = "Unknown"            -> 500
      [] c = "Unavailable"        -> 503

\* Mutant: Unknown falls through to StatusCode::default(), which is 200 OK.
get_http_code_unknown_as_ok(c) ==
    CASE c = "InvalidArgument"    -> 400
      [] c = "FailedPrecondition" -> 400
      [] c = "NotFound"           -> 404
      [] c = "AlreadyExists"      -> 409
      [] c = "Unauthenticated"    -> 401
      [] c = "PermissionDenied"   -> 403
      [] c = "TooManyRequests"    -> 429
      [] c = "Internal"           -> 500
      [] c = "Unknown"            -> 200
      [] c = "Unavailable"        -> 503

\* ErrorCode::get_http_code, the numeric value of each http::StatusCode.
get_http_code(c) ==
    CASE c = "InvalidArgument"    -> 400
      [] c = "FailedPrecondition" -> 400
      [] c = "NotFound"           -> 404
      [] c = "AlreadyExists"      -> 409
      [] c = "Unauthenticated"    -> 401
      [] c = "PermissionDenied"   -> 403
      [] c = "TooManyRequests"    -> 429
      [] c = "Internal"           -> 500
      [] c = "Unknown"            -> 500
      [] c = "Unavailable"        -> 503

(***************************************************************************)
(* FieldViolation, ErrorDetails, ApiError (lib.rs 56-79): the values.      *)
(***************************************************************************)
FieldViolation(field, description) ==
    [field |-> field, description |-> description]

\* metadata is a HashMap<String, String>: a function from keys to values.
ErrorInfo(reason, metadata) ==
    [variant |-> "ErrorInfo", reason |-> reason, metadata |-> metadata]

BadRequest(field_violations) ==
    [variant |-> "BadRequest", field_violations |-> field_violations]

LocalizedMessage(locale, message) ==
    [variant |-> "LocalizedMessage", locale |-> locale, message |-> message]

ApiError(code, message, details) ==
    [code |-> code, message |-> message, details |-> details]

\* ApiError::new
ApiError_new(code, message) ==
    ApiError(code, message, <<>>)

\* Mutant: the body of new copied into with_details, details left empty.
ApiError_with_details_dropped(code, message, details) ==
    ApiError(code, message, <<>>)

\* ApiError::with_details
ApiError_with_details(code, message, details) ==
    ApiError(code, message, details)

(***************************************************************************)
(* The inputs the handlers draw from.                                      *)
(***************************************************************************)
Messages == {"", "user 42 not found"}

Quota == ErrorInfo("QUOTA_EXCEEDED", ("limit" :> "100") @@ ("window" :> "60s"))

Invalid ==
    BadRequest(<<FieldViolation("email", "malformed"),
                 FieldViolation("age", "negative")>>)

Localized == LocalizedMessage("fr", "introuvable")

DetailPool == {Quota, Invalid, Localized}

DetailSeqs == UNION {[1..n -> DetailPool] : n \in 0..MaxDetails}

(***************************************************************************)
(* serde_json serialization (the Serialize derives, lib.rs 3-4, 56, 62-63, *)
(* 70).  A struct is written as an object with exactly its fields; an      *)
(* object is modelled as a function from field names.  A HashMap is        *)
(* written as the sequence of its entries in the map's iteration order,    *)
(* which is arbitrary: serialization yields a set of possible documents.   *)
(***************************************************************************)
Orderings(S) ==
    {p \in [1..Cardinality(S) -> S] : \A i, j \in 1..Cardinality(S) : p[i] = p[j] => i = j}

HashMap_serialize(m) ==
    {[i \in 1..Cardinality(DOMAIN m) |-> <<p[i], m[p[i]]>>] : p \in Orderings(DOMAIN m)}

FieldViolation_serialize(fv) ==
    [field |-> fv.field, description |-> fv.description]

\* Mutant: ErrorCode's rename_all = "SCREAMING_SNAKE_CASE" copied onto
\* ErrorDetails, renaming the written tags.
ErrorDetails_serialize_renamed(d) ==
    CASE d.variant = "ErrorInfo" ->
           {("@type" :> "ERROR_INFO") @@ [reason |-> d.reason, metadata |-> j] :
                j \in HashMap_serialize(d.metadata)}
      [] d.variant = "BadRequest" ->
           {("@type" :> "BAD_REQUEST") @@
              [field_violations |->
                 [i \in 1..Len(d.field_violations) |->
                     FieldViolation_serialize(d.field_violations[i])]]}
      [] d.variant = "LocalizedMessage" ->
           {("@type" :> "LOCALIZED_MESSAGE") @@
              [locale |-> d.locale, message |-> d.message]}

\* #[serde(tag = "@type")]: the variant's name is written first under the
\* key "@type", then the variant's fields.
ErrorDetails_serialize(d) ==
    CASE d.variant = "ErrorInfo" ->
           {("@type" :> "ErrorInfo") @@ [reason |-> d.reason, metadata |-> j] :
                j \in HashMap_serialize(d.metadata)}
      [] d.variant = "BadRequest" ->
           {("@type" :> "BadRequest") @@
              [field_violations |->
                 [i \in 1..Len(d.field_violations) |->
                     FieldViolation_serialize(d.field_violations[i])]]}
      [] d.variant = "LocalizedMessage" ->
           {("@type" :> "LocalizedMessage") @@
              [locale |-> d.locale, message |-> d.message]}

Vec_serialize(ds) ==
    {w \in [1..Len(ds) -> UNION {ErrorDetails_serialize(ds[i]) : i \in 1..Len(ds)}] :
        \A i \in 1..Len(ds) : w[i] \in ErrorDetails_serialize(ds[i])}

ApiError_serialize(e) ==
    {[code |-> ErrorCode_serialize(e.code), message |-> e.message, details |-> w] :
        w \in Vec_serialize(e.details)}

(***************************************************************************)
(* serde_json deserialization (the Deserialize derives).  No container     *)
(* carries deny_unknown_fields, default or other attributes: a missing     *)
(* field is an error, an unknown field is skipped, an unknown variant      *)
(* name is an error.                                                       *)
(***************************************************************************)
\* Entries are inserted in document order; a repeated key keeps the last.
HashMap_deserialize(j) ==
    [k \in {j[i][1] : i \in 1..Len(j)} |->
        j[CHOOSE i \in 1..Len(j) :
              j[i][1] = k /\ \A i2 \in 1..Len(j) : j[i2][1] = k => i2 <= i][2]]

FieldViolation_deserialize(o) ==
    IF {"field", "description"} \subseteq DOMAIN o
    THEN Accepted(FieldViolation(o.field, o.description))
    ELSE Rejected("missing field")

FieldViolations_deserialize(w) ==
    IF \A i \in 1..Len(w) : FieldViolation_deserialize(w[i]).ok
    THEN Accepted([i \in 1..Len(w) |-> FieldViolation_deserialize(w[i]).val])
    ELSE Rejected("missing field")

\* The internally tagged enum: the tag is read first and selects the variant,
\* whose fields are then read from the rest of the object.
ErrorDetails_deserialize(o) ==
    IF "@type" \notin DOMAIN o THEN Rejected("missing field")
    ELSE CASE o["@type"] = "ErrorInfo" ->
                IF {"reason", "metadata"} \subseteq DOMAIN o
                THEN Accepted(ErrorInfo(o.reason, HashMap_deserialize(o.metadata)))
                ELSE Rejected("missing field")
           [] o["@type"] = "BadRequest" ->
                IF "field_violations" \notin DOMAIN o THEN Rejected("missing field")
                ELSE IF FieldViolations_deserialize(o.field_violations).ok
                THEN Accepted(BadRequest(FieldViolations_deserialize(o.field_violations).val))
                ELSE Rejected("missing field")
           [] o["@type"] = "LocalizedMessage" ->
                IF {"locale", "message"} \subseteq DOMAIN o
                THEN Accepted(LocalizedMessage(o.locale, o.message))
                ELSE Rejected("missing field")
           [] OTHER -> Rejected("unknown variant")

\* The error of the first element of w that fails.
FirstRejection(w) ==
    ErrorDetails_deserialize(
        w[CHOOSE i \in 1..Len(w) :
              /\ ~ErrorDetails_deserialize(w[i]).ok
              /\ \A i2 \in 1..(i - 1) : ErrorDetails_deserialize(w[i2]).ok])

\* Mutant: the elements are collected in reverse order.
Vec_deserialize_reversed(w) ==
    IF \A i \in 1..Len(w) : ErrorDetails_deserialize(w[i]).ok
    THEN Accepted([i \in 1..Len(w) |-> ErrorDetails_deserialize(w[Len(w) + 1 - i]).val])
    ELSE Rejected(FirstRejection(w).why)

\* Vec<ErrorDetails>: the first element that fails fails the whole vector.
Vec_deserialize(w) ==
    IF \A i \in 1..Len(w) : ErrorDetails_deserialize(w[i]).ok
    THEN Accepted([i \in 1..Len(w) |-> ErrorDetails_deserialize(w[i]).val])
    ELSE Rejected(FirstRejection(w).why)

ApiError_deserialize(j) ==
    IF ~({"code", "message", "details"} \subseteq DOMAIN j) THEN Rejected("missing field")
    ELSE IF ~ErrorCode_deserialize(j.code).ok THEN Rejected("unknown variant")
    ELSE IF ~Vec_deserialize(j.details).ok THEN Rejected(Vec_deserialize(j.details).why)
    ELSE Accepted(ApiError(ErrorCode_deserialize(j.code).val, j.message,
                           Vec_deserialize(j.details).val))

(***************************************************************************)
(* Display for ApiError (lib.rs 99-103): the Debug rendering of the three  *)
(* fields between fixed pieces of text.  Debug writes the code as its      *)
(* variant name and the message quoted.                                    *)
(***************************************************************************)
Display_fmt(e) ==
    <<"ApiError { code: ", e.code, ", message: ", <<"\"", e.message, "\"">>,
      ", details: ", e.details, " }">>

\* Mutant: the status of the pair is lost and every error answers 500.
into_response_always_500(e) ==
    {[status |-> 500, content_type |-> "application/json", body |-> b] :
        b \in ApiError_serialize(e)}

(***************************************************************************)
(* IntoResponse for ApiError (lib.rs 107-113): the status is looked up     *)
(* from the code, then (status, Json(self)) is converted: Json writes the  *)
(* serialized value as the body with content type application/json, and   *)
(* the status of the pair replaces the response's status.                  *)
(***************************************************************************)
into_response(e) ==
    {[status |-> get_http_code(e.code), content_type |-> "application/json", body |-> b] :
        b \in ApiError_serialize(e)}

(***************************************************************************)
(* JSON documents a client may receive that this crate did not write.      *)
(***************************************************************************)
LocalizedWire ==
    ("@type" :> "LocalizedMessage") @@ [locale |-> "fr", message |-> "introuvable"]

RetryInfoWire ==
    ("@type" :> "RetryInfo") @@ [retry_delay |-> "5s"]

ForeignPayloads ==
    { [code |-> "not_found", message |-> "m", details |-> <<>>],
      [code |-> "NotFound", message |-> "m", details |-> <<>>],
      [code |-> "TEAPOT", message |-> "m", details |-> <<>>],
      [code |-> "NOT_FOUND", message |-> "m"],
      [code |-> "UNAVAILABLE", message |-> "m", details |-> <<LocalizedWire, RetryInfoWire>>],
      [code |-> "UNAVAILABLE", message |-> "m", details |-> <<RetryInfoWire, LocalizedWire>>],
      [code |-> "INTERNAL", message |-> "",
       details |-> <<LocalizedWire @@ [reason |-> "r", metadata |-> <<<<"k", "v">>>>]>>],
      [code |-> "INTERNAL", message |-> "",
       details |-> <<("@type" :> "ErrorInfo") @@ [locale |-> "fr", message |-> "x"]>>],
      [code |-> "INTERNAL", message |-> "",
       details |-> <<[reason |-> "r", metadata |-> <<>>]>>],
      [code |-> "ALREADY_EXISTS", message |-> "dup",
       details |-> <<("@type" :> "ErrorInfo") @@
                       [reason |-> "r", metadata |-> <<<<"k", "v1">>, <<"k", "v2">>>>]>>] }

(***************************************************************************)
(* State.  err is the handler's binding: st is "none" before the           *)
(* construction, "live" while the binding owns the value and "moved" once  *)
(* the value has been moved out of it (v then records the value that was   *)
(* moved); conv counts the conversions of this ApiError into a response.   *)
(* out is the result of the operation applied last.                        *)
(***************************************************************************)
Unbound == [unbound |-> TRUE]

Init ==
    /\ err = [st |-> "none", v |-> Unbound, conv |-> 0]
    /\ out = [op |-> "init"]

Bind(e) == [st |-> "live", v |-> e, conv |-> 0]

\* let mut err = ApiError::new(code, message);
New ==
    /\ err.st = "none"
    /\ \E code \in ErrorCode, message \in Messages :
          /\ err' = Bind(ApiError_new(code, message))
          /\ out' = [op |-> "new", code |-> code, message |-> message]

\* let mut err = ApiError::with_details(code, message, details);
WithDetails ==
    /\ err.st = "none"
    /\ \E code \in ErrorCode, message \in Messages, details \in DetailSeqs :
          /\ err' = Bind(ApiError_with_details(code, message, details))
          /\ out' = [op |-> "with_details", code |-> code, message |-> message,
                     details |-> details]

\* err.code.get_http_code()       (&self)
GetHttpCode ==
    /\ err.st = "live"
    /\ out' = [op |-> "get_http_code", code |-> err.v.code,
               status |-> get_http_code(err.v.code)]
    /\ UNCHANGED err

\* Mutant: fmt takes the message out of the error while rendering it.
Display_taking_message ==
    /\ err.st = "live"
    /\ out' = [op |-> "fmt", text |-> Display_fmt(err.v)]
    /\ err' = [err EXCEPT !.v.message = ""]

\* err.to_string()                (&self)
Display ==
    /\ err.st = "live"
    /\ out' = [op |-> "fmt", text |-> Display_fmt(err.v)]
    /\ UNCHANGED err

\* serde_json::to_value(&err)     (&self)
Serialize ==
    /\ err.st = "live"
    /\ \E b \in ApiError_serialize(err.v) :
          out' = [op |-> "serialize", body |-> b, src |-> err.v]
    /\ UNCHANGED err

\* Mutant: into_response takes &self, and the binding stays usable.
IntoResponse_by_reference ==
    /\ err.st = "live"
    /\ \E r \in into_response(err.v) :
          out' = [op |-> "into_response", status |-> r.status,
                  content_type |-> r.content_type, body |-> r.body, src |-> err.v]
    /\ err' = [err EXCEPT !.conv = @ + 1]

\* err.into_response()            (self, by value: the binding is moved from)
IntoResponse ==
    /\ err.st = "live"
    /\ \E r \in into_response(err.v) :
          out' = [op |-> "into_response", status |-> r.status,
                  content_type |-> r.content_type, body |-> r.body, src |-> err.v]
    /\ err' = [err EXCEPT !.st = "moved", !.conv = @ + 1]

\* A document not written by this crate arrives at a client.
Receive ==
    /\ \E b \in ForeignPayloads :
          out' = [op |-> "receive", body |-> b, src |-> Unbound]
    /\ UNCHANGED err

\* serde_json::from_value::<ApiError>(body) on the document at hand.
Deserialize ==
    /\ out.op \in {"serialize", "into_response", "receive"}
    /\ out' = [op |-> "deserialize", body |-> out.body, src |-> out.src,
               res |-> ApiError_deserialize(out.body)]
    /\ UNCHANGED err

\* err.code = code;               (pub code, lib.rs 72)
AssignCode ==
    /\ err.st = "live"
    /\ \E code \in ErrorCode \ {err.v.code} :
          err' = [err EXCEPT !.v.code = code]
    /\ out' = [op |-> "assign", field |-> "code"]

\* err.message = message;         (pub message, lib.rs 76)
AssignMessage ==
    /\ err.st = "live"
    /\ \E message \in Messages \ {err.v.message} :
          err' = [err EXCEPT !.v.message = message]
    /\ out' = [op |-> "assign", field |-> "message"]

\* err.details.push(d);           (pub details, lib.rs 78)
PushDetail ==
    /\ err.st = "live"
    /\ Len(err.v.details) < MaxDetails
    /\ \E d \in DetailPool :
          err' = [err EXCEPT !.v.details = Append(@, d)]
    /\ out' = [op |-> "assign", field |-> "details"]

Next ==
    \/ New
    \/ WithDetails
    \/ GetHttpCode
    \/ Display
    \/ Serialize
    \/ IntoResponse
    \/ Receive
    \/ Deserialize
    \/ AssignCode
    \/ AssignMessage
    \/ PushDetail

Spec == Init /\ [][Next]_vars

(***************************************************************************)
(* What the specification says, for the properties below.                  *)
(***************************************************************************)
\* The mapping table of the specification, section 4.1.
StatusTable ==
    ("InvalidArgument" :> 400) @@ ("FailedPrecondition" :> 400) @@
    ("NotFound" :> 404) @@ ("AlreadyExists" :> 409) @@
    ("Unauthenticated" :> 401) @@ ("PermissionDenied" :> 403) @@
    ("TooManyRequests" :> 429) @@ ("Internal" :> 500) @@
    ("Unknown" :> 500) @@ ("Unavailable" :> 503)

\* The upper-snake-case token of each code, section 3.
TokenTable ==
    ("InvalidArgument" :> "INVALID_ARGUMENT") @@
    ("FailedPrecondition" :> "FAILED_PRECONDITION") @@
    ("NotFound" :> "NOT_FOUND") @@ ("AlreadyExists" :> "ALREADY_EXISTS") @@
    ("Unauthenticated" :> "UNAUTHENTICATED") @@
    ("PermissionDenied" :> "PERMISSION_DENIED") @@
    ("TooManyRequests" :> "TOO_MANY_REQUESTS") @@ ("Internal" :> "INTERNAL") @@
    ("Unknown" :> "UNKNOWN") @@ ("Unavailable" :> "UNAVAILABLE")

Tokens == {TokenTable[c] : c \in ErrorCode}

ClientCodes ==
    { "InvalidArgument", "FailedPrecondition", "NotFound", "AlreadyExists",
      "Unauthenticated", "PermissionDenied", "TooManyRequests" }

ServerCodes == {"Internal", "Unknown", "Unavailable"}

Variants == {"ErrorInfo", "BadRequest", "LocalizedMessage"}

\* The ApiErrors a handler can hold.
ApiErrors ==
    {ApiError(c, m, ds) : c \in ErrorCode, m \in Messages, ds \in DetailSeqs}

\* A details entry that carries one of the three tags and that variant's fields.
WellFormedEntry(o) ==
    /\ "@type" \in DOMAIN o
    /\ \/ o["@type"] = "ErrorInfo" /\ {"reason", "metadata"} \subseteq DOMAIN o
       \/ /\ o["@type"] = "BadRequest"
          /\ "field_violations" \in DOMAIN o
          /\ \A i \in 1..Len(o.field_violations) :
                {"field", "description"} \subseteq DOMAIN o.field_violations[i]
       \/ o["@type"] = "LocalizedMessage" /\ {"locale", "message"} \subseteq DOMAIN o

UnknownEntry(o) == "@type" \in DOMAIN o /\ o["@type"] \notin Variants

(***************************************************************************)
(* C1: get_http_code is defined on each of the ten codes and gives the     *)
(* status of the specification's table: 400, 400, 404, 409, 401, 403, 429, *)
(* 500, 500, 503; a status looked up for a live error is the table's.      *)
(***************************************************************************)
C1_StatusTable ==
    /\ DOMAIN StatusTable = ErrorCode
    /\ \A c \in ErrorCode : get_http_code(c) = StatusTable[c]
    /\ out.op = "get_http_code" => out.status = StatusTable[err.v.code]

C1_Witness ==
    out.op = "get_http_code" /\ err.v.code = "AlreadyExists" /\ out.status = 409

(***************************************************************************)
(* C2: into_response always yields a response; its status is the status    *)
(* of the error's code, its body is the serialization of the whole error   *)
(* (code as its token, message, details as an array even when empty), and  *)
(* any error with the same code gets the same status.                      *)
(***************************************************************************)
C2_IntoResponse ==
    /\ err.st = "live" => into_response(err.v) # {}
    /\ out.op = "into_response" =>
          /\ out.status = StatusTable[out.src.code]
          /\ DOMAIN out.body = {"code", "message", "details"}
          /\ out.body.code = TokenTable[out.src.code]
          /\ out.body.message = out.src.message
          /\ DOMAIN out.body.details = 1..Len(out.src.details)
          /\ out.body \in ApiError_serialize(out.src)
          /\ \A m \in Messages, ds \in DetailSeqs :
                \A r \in into_response(ApiError(out.src.code, m, ds)) :
                    r.status = out.status

C2_Witness ==
    /\ out.op = "into_response"
    /\ out.status = 404
    /\ out.body = [code |-> "NOT_FOUND", message |-> "user 42 not found", details |-> <<>>]

(***************************************************************************)
(* C3: deserializing a document this crate serialized from an ApiError     *)
(* gives back an equal ApiError: same code, same message, the details and  *)
(* the field violations in the same order, the metadata the same mapping   *)
(* whatever the order its entries were written in.                         *)
(***************************************************************************)
C3_RoundTrip ==
    (out.op = "deserialize" /\ out.src # Unbound) => out.res = Accepted(out.src)

C3_Witness ==
    /\ out.op = "deserialize"
    /\ out.src # Unbound
    /\ out.src.message = ""
    /\ out.src.details = <<Quota, Invalid>>
    /\ out.body.details[1].metadata[1][1] = "window"
    /\ out.res.ok

(***************************************************************************)
(* C4: a document whose details hold recognized entries and entries with   *)
(* an unrecognized @type, and nothing else wrong, deserializes             *)
(* successfully with the recognized entries kept.                          *)
(***************************************************************************)
C4_ForwardCompatible ==
    ( /\ out.op = "deserialize"
      /\ {"code", "message", "details"} \subseteq DOMAIN out.body
      /\ out.body.code \in Tokens
      /\ \A i \in 1..Len(out.body.details) :
            WellFormedEntry(out.body.details[i]) \/ UnknownEntry(out.body.details[i])
      /\ \E i \in 1..Len(out.body.details) : WellFormedEntry(out.body.details[i])
      /\ \E i \in 1..Len(out.body.details) : UnknownEntry(out.body.details[i]) )
    => /\ out.res.ok
       /\ \A i \in 1..Len(out.body.details) :
             WellFormedEntry(out.body.details[i]) =>
                \E k \in 1..Len(out.res.val.details) :
                    out.res.val.details[k].variant = out.body.details[i]["@type"]

(***************************************************************************)
(* C5: a document whose code is not one of the ten tokens is rejected,     *)
(* and the code of every ApiError, constructed or deserialized, is one of  *)
(* the ten values.                                                         *)
(***************************************************************************)
C5_ClosedCodes ==
    /\ (out.op = "deserialize" /\ "code" \in DOMAIN out.body /\ out.body.code \notin Tokens)
          => ~out.res.ok
    /\ (out.op = "deserialize" /\ out.res.ok) => out.res.val.code \in ErrorCode
    /\ err.st # "none" => err.v.code \in ErrorCode

C5_Witness ==
    /\ out.op = "deserialize"
    /\ out.body.code = "not_found"
    /\ out.res = Rejected("unknown variant")

(***************************************************************************)
(* C6: every serialized details entry carries under @type the name of the  *)
(* variant it was written from, and every received entry that carries one  *)
(* of the three names and that variant's fields is read as that variant.   *)
(***************************************************************************)
C6_TagFidelity ==
    /\ out.op \in {"serialize", "into_response"} =>
          \A i \in 1..Len(out.src.details) :
              /\ "@type" \in DOMAIN out.body.details[i]
              /\ out.body.details[i]["@type"] = out.src.details[i].variant
    /\ (out.op = "deserialize" /\ "details" \in DOMAIN out.body) =>
          \A i \in 1..Len(out.body.details) :
              WellFormedEntry(out.body.details[i]) =>
                 /\ ErrorDetails_deserialize(out.body.details[i]).ok
                 /\ ErrorDetails_deserialize(out.body.details[i]).val.variant
                       = out.body.details[i]["@type"]
    /\ (out.op = "deserialize" /\ out.res.ok) =>
          \A i \in 1..Len(out.body.details) :
              out.res.val.details[i].variant = out.body.details[i]["@type"]

C6_Witness ==
    /\ out.op = "deserialize"
    /\ out.src = Unbound
    /\ out.res.ok
    /\ "reason" \in DOMAIN out.body.details[1]
    /\ out.body.details[1]["@type"] = "LocalizedMessage"
    /\ out.res.val.details = <<Localized>>

(***************************************************************************)
(* C7: with_details stores the code, the message and the details it is     *)
(* given, in the given order; new stores the code and the message with     *)
(* empty details, which is what with_details gives for empty details.      *)
(***************************************************************************)
C7_Constructors ==
    /\ out.op = "with_details" =>
          /\ err.st = "live"
          /\ err.v.code = out.code
          /\ err.v.message = out.message
          /\ err.v.details = out.details
    /\ out.op = "new" =>
          /\ err.st = "live"
          /\ err.v = [code |-> out.code, message |-> out.message, details |-> <<>>]
          /\ err.v = ApiError_with_details(out.code, out.message, <<>>)

C7_Witness ==
    /\ out.op = "with_details"
    /\ out.message = ""
    /\ out.details = <<Localized, Quota>>
    /\ err.v.details = <<Localized, Quota>>

C9_ConvertOnce ==
    [][/\ err'.conv <= 1
       /\ err.st = "moved" =>
             /\ err' = err
             /\ out'.op \in {"receive", "deserialize"}]_vars

C9_Witness ==
    /\ err.st = "moved"
    /\ err.conv = 1
    /\ out.op = "deserialize"
    /\ out.src = err.v

(***************************************************************************)
(* C10: the status of a response made from an ApiError is never below 400  *)
(* or above 599; it is in 400..499 exactly for the seven client codes and  *)
(* in 500..599 exactly for Internal, Unknown and Unavailable.              *)
(***************************************************************************)
C10_ErrorStatus ==
    /\ \A c \in ErrorCode :
          \A r \in into_response(ApiError(c, "", <<>>)) :
              /\ r.status \in 400..599
              /\ r.status \in 400..499 <=> c \in ClientCodes
              /\ r.status \in 500..599 <=> c \in ServerCodes
    /\ out.op = "into_response" =>
          /\ out.status \in 400..599
          /\ out.status \in 400..499 <=> out.src.code \in ClientCodes
          /\ out.status \in 500..599 <=> out.src.code \in ServerCodes

C10_Witness ==
    out.op = "into_response" /\ out.src.code = "Unavailable" /\ out.status = 503

====
